---- MODULE Spec2Model ----
(***************************************************************************)
(* games.random: the generation / streaming / chat pipeline of             *)
(* back-end/server/main.js and the three routes of the Express server that *)
(* call it (/api/generate, /api/generate-stream, /api/chat).               *)
(*                                                                         *)
(* Texts are sequences of one-character strings, so that the regular       *)
(* expressions of stripMarkdownCodeBlocks, String.prototype.trim and       *)
(* String.prototype.toLowerCase are computed character by character.       *)
(***************************************************************************)
EXTENDS Integers, Sequences, FiniteSets, TLC

(***************************************************************************)
(* Characters                                                              *)
(***************************************************************************)
NL == "\n"
\* The backtick has no string literal in TLA+; this token stands for it.
BackTick == "BACKTICK"
Star == "*"
Hyphen == "-"
Hash == "#"

\* \s of a JavaScript regular expression and the characters trim() strips
\* (the ASCII part of the class).
WhiteSpace == {" ", "\t", NL, "\r"}

\* Where ^ and $ match under the m flag.
LineTerminators == {NL, "\r"}

UpperCase == <<"A", "B", "C", "D", "E", "F", "G", "H", "I", "J", "K", "L", "M",
               "N", "O", "P", "Q", "R", "S", "T", "U", "V", "W", "X", "Y", "Z">>
LowerCase == <<"a", "b", "c", "d", "e", "f", "g", "h", "i", "j", "k", "l", "m",
               "n", "o", "p", "q", "r", "s", "t", "u", "v", "w", "x", "y", "z">>

ToLowerChar(ch) ==
    IF \E i \in DOMAIN UpperCase : UpperCase[i] = ch
    THEN LowerCase[CHOOSE i \in DOMAIN UpperCase : UpperCase[i] = ch]
    ELSE ch

\* String.prototype.toLowerCase
ToLowerCase(s) == [i \in DOMAIN s |-> ToLowerChar(s[i])]

\* String.prototype.toUpperCase is only used for logging; not modelled.

(***************************************************************************)
(* Helpers for the regular expressions                                     *)
(***************************************************************************)
\* s from position i on (1-based), empty when i is past the end.
Drop(s, i) == IF i > Len(s) THEN <<>> ELSE SubSeq(s, i, Len(s))

\* The word w stands in s at position i.
IsAt(s, i, w) ==
    /\ i + Len(w) - 1 <= Len(s)
    /\ \A k \in 1..Len(w) : s[i + k - 1] = w[k]

\* The same, letters compared without case (the i flag).
IsAtNoCase(s, i, w) ==
    /\ i + Len(w) - 1 <= Len(s)
    /\ \A k \in 1..Len(w) : ToLowerChar(s[i + k - 1]) = w[k]

\* The first position from i on whose character is not in class, Len(s) + 1
\* when there is none: where a greedy class* starting at i stops.
RECURSIVE SkipClass(_, _, _)
SkipClass(s, i, class) ==
    IF i <= Len(s) /\ s[i] \in class THEN SkipClass(s, i + 1, class) ELSE i

\* The first position from i on whose character is in class, Len(s) + 1 when
\* there is none: where a greedy [^class]* starting at i stops.
RECURSIVE SkipNotClass(_, _, _)
SkipNotClass(s, i, class) ==
    IF i <= Len(s) /\ s[i] \notin class THEN SkipNotClass(s, i + 1, class) ELSE i

\* ^ under the m flag
AtLineStart(s, i) == i = 1 \/ s[i - 1] \in LineTerminators

\* $ under the m flag
AtLineEnd(s, i) == i > Len(s) \/ s[i] \in LineTerminators

(***************************************************************************)
(* stripMarkdownCodeBlocks, one operator per replace() of the chain        *)
(***************************************************************************)
Fence == <<BackTick, BackTick, BackTick>>

\* (?:javascript|js|typescript|ts), in the order the alternation tries them
LanguageTags == << <<"j","a","v","a","s","c","r","i","p","t">>,
                   <<"j","s">>,
                   <<"t","y","p","e","s","c","r","i","p","t">>,
                   <<"t","s">> >>

\* Length of the language tag the optional group matches at i (0: none).
LanguageTagLen(s, i) ==
    IF \E t \in DOMAIN LanguageTags : IsAtNoCase(s, i, LanguageTags[t])
    THEN LET first == CHOOSE t \in DOMAIN LanguageTags :
                         /\ IsAtNoCase(s, i, LanguageTags[t])
                         /\ \A u \in 1..(t - 1) : ~IsAtNoCase(s, i, LanguageTags[u])
         IN  Len(LanguageTags[first])
    ELSE 0

\* .replace(/```(?:javascript|js|typescript|ts)?\s*/gi, '')
RECURSIVE RemoveCodeBlockStartsFrom(_, _)
RemoveCodeBlockStartsFrom(s, i) ==
    IF i > Len(s) THEN <<>>
    ELSE IF IsAt(s, i, Fence)
         THEN RemoveCodeBlockStartsFrom(
                  s, SkipClass(s, i + 3 + LanguageTagLen(s, i + 3), WhiteSpace))
         ELSE <<s[i]>> \o RemoveCodeBlockStartsFrom(s, i + 1)

RemoveCodeBlockStarts(s) == RemoveCodeBlockStartsFrom(s, 1)

\* .replace(/\s*```/g, '')
RECURSIVE RemoveCodeBlockEndsFrom(_, _)
RemoveCodeBlockEndsFrom(s, i) ==
    IF i > Len(s) THEN <<>>
    ELSE LET j == SkipClass(s, i, WhiteSpace)
         IN  IF IsAt(s, j, Fence)
             THEN RemoveCodeBlockEndsFrom(s, j + 3)
             ELSE <<s[i]>> \o RemoveCodeBlockEndsFrom(s, i + 1)

RemoveCodeBlockEnds(s) == RemoveCodeBlockEndsFrom(s, 1)

\* .replace(/\*\*([^*]+)\*\*/g, '$1')
RECURSIVE RemoveBoldFrom(_, _)
RemoveBoldFrom(s, i) ==
    IF i > Len(s) THEN <<>>
    ELSE LET j == SkipNotClass(s, i + 2, {Star})
         IN  IF /\ IsAt(s, i, <<Star, Star>>)
                /\ j > i + 2
                /\ IsAt(s, j, <<Star, Star>>)
             THEN SubSeq(s, i + 2, j - 1) \o RemoveBoldFrom(s, j + 2)
             ELSE <<s[i]>> \o RemoveBoldFrom(s, i + 1)

RemoveBold(s) == RemoveBoldFrom(s, 1)

\* .replace(/^---+$/gm, '')
RECURSIVE RemoveHorizontalRulesFrom(_, _)
RemoveHorizontalRulesFrom(s, i) ==
    IF i > Len(s) THEN <<>>
    ELSE LET j == SkipClass(s, i, {Hyphen})
         IN  IF AtLineStart(s, i) /\ j - i >= 3 /\ AtLineEnd(s, j)
             THEN RemoveHorizontalRulesFrom(s, j)
             ELSE <<s[i]>> \o RemoveHorizontalRulesFrom(s, i + 1)

RemoveHorizontalRules(s) == RemoveHorizontalRulesFrom(s, 1)

\* .replace(/^#+\s*/gm, '')
RECURSIVE RemoveHeadersFrom(_, _)
RemoveHeadersFrom(s, i) ==
    IF i > Len(s) THEN <<>>
    ELSE IF AtLineStart(s, i) /\ s[i] = Hash
         THEN RemoveHeadersFrom(
                  s, SkipClass(s, SkipClass(s, i, {Hash}), WhiteSpace))
         ELSE <<s[i]>> \o RemoveHeadersFrom(s, i + 1)

RemoveHeaders(s) == RemoveHeadersFrom(s, 1)

\* .replace(/\n{3,}/g, '\n\n')
RECURSIVE CollapseNewlinesFrom(_, _)
CollapseNewlinesFrom(s, i) ==
    IF i > Len(s) THEN <<>>
    ELSE LET j == SkipClass(s, i, {NL})
         IN  IF j - i >= 3
             THEN <<NL, NL>> \o CollapseNewlinesFrom(s, j)
             ELSE <<s[i]>> \o CollapseNewlinesFrom(s, i + 1)

CollapseNewlines(s) == CollapseNewlinesFrom(s, 1)

\* String.prototype.trim
RECURSIVE TrimEnd(_)
TrimEnd(s) ==
    IF s # <<>> /\ s[Len(s)] \in WhiteSpace
    THEN TrimEnd(SubSeq(s, 1, Len(s) - 1))
    ELSE s

Trim(s) == TrimEnd(Drop(s, SkipClass(s, 1, WhiteSpace)))

stripMarkdownCodeBlocks(text) ==
    Trim(CollapseNewlines(RemoveHeaders(RemoveHorizontalRules(RemoveBold(
        RemoveCodeBlockEnds(RemoveCodeBlockStarts(text)))))))

(***************************************************************************)
(* Values                                                                  *)
(***************************************************************************)
\* A value of a JSON request body or of a call argument: undefined, a
\* string, or a number (a value that is truthy and is no string).
Undefined == [t |-> "undefined", s |-> <<>>]
Str(s) == [t |-> "string", s |-> s]
Number5 == [t |-> "number", s |-> <<>>]

\* !v
Falsy(v) == v.t = "undefined" \/ (v.t = "string" /\ v.s = <<>>)

P5JS == <<"p", "5", "j", "s">>
PHASER == <<"p", "h", "a", "s", "e", "r">>

\* The prompt files read at startup; their text is outside the repository's
\* code, these short texts stand for it.
p5jsPrompt == <<"P", "5", ":">>
phaserPrompt == <<"P", "H", ":">>
AIchatbotPrompt == <<"A", "I", ":">>

\* The least length of a trimmed description the routes accept.
MinDescriptionLength == 5

TypeErrorTrim == "description.trim is not a function"
TypeErrorMessageTrim == "message.trim is not a function"
TypeErrorToLowerCase == "library.toLowerCase is not a function"
TypeErrorToUpperCase == "library.toUpperCase is not a function"

(***************************************************************************)
(* The remote model provider                                               *)
(***************************************************************************)
TextBlock(text) == [type |-> "text", text |-> text]
ToolUseBlock == [type |-> "tool_use", text |-> <<"{", "}">>]

FencedReply == <<BackTick, BackTick, BackTick, "j", "s", NL,
                 "/", "/", " ", "c", "o", "d", "e", NL,
                 "f", "u", "n", "c", "t", "i", "o", "n", " ",
                 "s", "e", "t", "u", "p", "(", ")", "{", "}", NL,
                 BackTick, BackTick, BackTick>>
FenceOpen == <<BackTick, BackTick, BackTick, "j", "s", NL>>
LetX == <<"l", "e", "t", " ", "x", ";", NL>>

\* What messages.create may resolve with: content blocks and a stop reason.
Messages ==
    { [content |-> <<TextBlock(FencedReply)>>, stop_reason |-> "end_turn"],
      [content |-> <<TextBlock(FenceOpen), ToolUseBlock, TextBlock(LetX)>>,
       stop_reason |-> "max_tokens"] }

\* The text deltas a stream may deliver, and how a stream may stop.
TextDeltas == {FenceOpen, LetX}
StopReasons == {"end_turn", "max_tokens"}

\* The messages of the errors the provider's client may reject with.
ProviderErrors == {"429 rate_limit_error"}

\* What a throwing event sink throws.
SinkError == "sink failed"

\* The number of calls of a run: of concurrent calls, of streaming calls,
\* of requests to the routes.
MaxCalls == 3
MaxStreams == 2
MaxRequests == 2
\* The number of text deltas of one stream.
MaxChunks == 2

RECURSIVE Concat(_)
Concat(texts) ==
    IF texts = <<>> THEN <<>> ELSE Head(texts) \o Concat(Tail(texts))

\* (a variant for comparison: only the first block is read, message.content[0].text)
ExtractText_FirstBlock(content) ==
    IF content = <<>> THEN <<>> ELSE Head(content).text
\* for (const block of message.content) if (block.type === 'text') response += block.text
RECURSIVE ExtractText(_)
ExtractText(content) ==
    IF content = <<>> THEN <<>>
    ELSE (IF Head(content).type = "text" THEN Head(content).text ELSE <<>>)
         \o ExtractText(Tail(content))

(***************************************************************************)
(* State                                                                   *)
(***************************************************************************)
VARIABLES
    TheCleanCode,  \* the cache cell of main.js
    calls,         \* per call: the route or function called, its arguments, its sink
    pc,            \* per call: where it stands
    local,         \* per call: the locals of the service function
    remote,        \* per call: the request sent to the provider and what came back
    sink,          \* per call: the events delivered to onChunk, in order
    res,           \* per call: the HTTP response written so far
    completed,     \* the generation calls that returned, in the order they returned
    startup        \* the process: how far its start got, what it read

vars == <<TheCleanCode, calls, pc, local, remote, sink, res, completed, startup>>

Calls == DOMAIN calls

NoLocal == [description |-> <<>>, library |-> <<>>, systemPrompt |-> <<>>,
            fullResponse |-> <<>>, chunkCount |-> 0,
            result |-> <<>>, error |-> "", cacheAtStart |-> 0,
            phases |-> <<>>]

NoRemote == [api |-> "none", system |-> <<>>, cache_control |-> "none",
             user |-> <<>>, attempts |-> 0, deltas |-> <<>>, outcome |-> "none",
             content |-> <<>>, stop_reason |-> "none", error |-> ""]

NoResponse == [status |-> 200, sse |-> FALSE, json |-> <<>>, frames |-> <<>>,
               ended |-> FALSE, abandoned |-> FALSE, framesAtAbandon |-> 0]

\* The prompt files, in the order main.js reads them when it is imported.
Resources == <<"prompt-p5js.txt", "prompt-phaser.txt", "AIchatbot-Prompts.txt">>
ResourceSet == {Resources[i] : i \in DOMAIN Resources}

\* The process when node starts it: the server module is importing main.js,
\* nothing read yet; which files can be read is the environment's.
Starting(readable) == [phase |-> "importing", readable |-> readable, reads |-> <<>>]

\* The process once it serves: the three files read, app.listen called.
Started == [phase |-> "listening", readable |-> ResourceSet, reads |-> Resources]

\* The server, started, before its first request.
Init ==
    /\ TheCleanCode = <<>>
    /\ calls = <<>>
    /\ pc = <<>>
    /\ local = <<>>
    /\ remote = <<>>
    /\ sink = <<>>
    /\ res = <<>>
    /\ completed = <<>>
    /\ startup = Started

\* The process at its start.
InitStartup ==
    /\ TheCleanCode = <<>>
    /\ calls = <<>>
    /\ pc = <<>>
    /\ local = <<>>
    /\ remote = <<>>
    /\ sink = <<>>
    /\ res = <<>>
    /\ completed = <<>>
    /\ \E readable \in SUBSET ResourceSet : startup = Starting(readable)

(***************************************************************************)
(* The start of the process                                                *)
(***************************************************************************)
\* (a variant for comparison: a file that cannot be read is passed over)
AfterRead_IgnoresMissing(resource, readable) == "importing"

\* const ...Prompt = await readFile(...): a rejection ends the evaluation of
\* main.js, and with it the import in the server module.
AfterRead(resource, readable) ==
    IF resource \in readable THEN "importing" ELSE "failed"

\* The next of the three top-level reads of main.js.
ReadPrompt ==
    /\ startup.phase = "importing"
    /\ Len(startup.reads) < Len(Resources)
    /\ LET resource == Resources[Len(startup.reads) + 1]
       IN  startup' = [startup EXCEPT !.reads = Append(@, resource),
                                      !.phase = AfterRead(resource, startup.readable)]
    /\ UNCHANGED <<TheCleanCode, calls, pc, local, remote, sink, res, completed>>

\* main.js is evaluated: the server module's body runs, down to app.listen.
Listen ==
    /\ startup.phase = "importing"
    /\ Len(startup.reads) = Len(Resources)
    /\ startup' = [startup EXCEPT !.phase = "listening"]
    /\ UNCHANGED <<TheCleanCode, calls, pc, local, remote, sink, res, completed>>

(***************************************************************************)
(* Starting a call                                                         *)
(***************************************************************************)
Body(description, library, message, gameCode) ==
    [description |-> description, library |-> library,
     message |-> message, gameCode |-> gameCode]

\* A call (a request received, or a function called) joins the run with the
\* state its synchronous first part leaves behind.
Begin(call, at, loc, rem, events, response) ==
    /\ startup.phase = "listening"
    /\ calls' = Append(calls, call)
    /\ pc' = Append(pc, at)
    /\ local' = Append(local, loc)
    /\ remote' = Append(remote, rem)
    /\ sink' = Append(sink, events)
    /\ res' = Append(res, response)
    /\ UNCHANGED startup

\* res.status(status).json(body): the response is complete.
JsonResponse(status, body) ==
    [NoResponse EXCEPT !.status = status, !.json = <<body>>, !.ended = TRUE]

\* A validation ends in a rejection (return res.status(4xx).json), in a
\* TypeError thrown inside the route's try, or in the normalized library.
\* (a variant for comparison: the answer hides the message)
ErrorBody_Generic(message) == [success |-> FALSE, error |-> "Internal server error"]
\* { success: false, error: ... }, the body of every 4xx and 5xx answer
ErrorBody(message) == [success |-> FALSE, error |-> message]

Rejection(status, error) ==
    [verdict |-> "rejected", status |-> status, error |-> error, library |-> <<>>]
Thrown(error) ==
    [verdict |-> "threw", status |-> 500, error |-> error, library |-> <<>>]
Accepted(library) ==
    [verdict |-> "accepted", status |-> 200, error |-> "", library |-> library]

\* The points a generation call passes, in the order of the code: the call,
\* the choice of the system prompt, the await of the provider; then the
\* cleaning, the write of the cache, the return. The catch is one more.
UpToAwait == <<"Idle", "PromptSelected", "AwaitingModel">>
AfterAwait == <<"Sanitizing", "Cached", "Done">>
\* library.toUpperCase() throws before the prompt is chosen
FailedAtEntry == <<"Idle", "Failed">>
\* onChunk throws on the complete event, after the cleaning
FailedAfterAwait == <<"Sanitizing", "Failed">>

\* library = 'p5js' in the parameter list: the default replaces undefined only.
DefaultLibrary(library) == IF library.t = "undefined" THEN Str(P5JS) ELSE library

\* const systemPrompt = library === 'phaser' ? phaserPrompt : p5jsPrompt
SelectSystemPrompt(library) == IF library = PHASER THEN phaserPrompt ELSE p5jsPrompt

(***************************************************************************)
(* generateGame                                                            *)
(***************************************************************************)
\* The request of anthropic.messages.create in generateGame.
GenerateGameRequest(systemPrompt, description) ==
    [NoRemote EXCEPT !.api = "create", !.attempts = 1,
                     !.system = systemPrompt,
                     !.cache_control = "ephemeral", !.user = description,
                     !.outcome = "pending"]

\* generateGame up to its await: the log line's library.toUpperCase() throws
\* on a value that is no string, the catch rethrows.
GenerateGameEntry(description, libraryArg) ==
    LET library == DefaultLibrary(libraryArg)
    IN  IF library.t # "string"
        THEN [pc |-> "threw",
              local |-> [NoLocal EXCEPT !.error = TypeErrorToUpperCase,
                                        !.phases = FailedAtEntry],
              remote |-> NoRemote]
        ELSE [pc |-> "awaitCreate",
              local |-> [NoLocal EXCEPT !.description = description,
                                        !.library = library.s,
                                        !.systemPrompt = SelectSystemPrompt(library.s),
                                        !.phases = UpToAwait],
              remote |-> GenerateGameRequest(SelectSystemPrompt(library.s), description)]

\* (a variant for comparison: the first writer keeps the cell)
GenerateGameCache_FirstWriter(cleanCode, cached) ==
    IF cached = <<>> THEN cleanCode ELSE cached
\* TheCleanCode = cleanCode
GenerateGameCache(cleanCode, cached) == cleanCode

\* (a variant for comparison: a reply cut off at the length limit is thrown)
GenerateGameResolves_TruncationThrows(c, message) ==
    /\ c \in Calls
    /\ pc[c] = "awaitCreate"
    /\ calls[c].route \in {"POST /api/generate", "generateGame"}
    /\ remote' = [remote EXCEPT ![c].outcome = "message",
                                ![c].content = message.content,
                                ![c].stop_reason = message.stop_reason]
    /\ IF message.stop_reason = "max_tokens"
       THEN /\ local' = [local EXCEPT ![c].error = "truncated"]
            /\ pc' = [pc EXCEPT ![c] = "threw"]
            /\ UNCHANGED <<TheCleanCode, completed>>
       ELSE LET cleanCode == stripMarkdownCodeBlocks(ExtractText(message.content))
            IN  /\ TheCleanCode' = GenerateGameCache(cleanCode, TheCleanCode)
                /\ local' = [local EXCEPT ![c].result = cleanCode]
                /\ pc' = [pc EXCEPT ![c] = "returned"]
                /\ completed' = Append(completed, c)
    /\ UNCHANGED <<calls, sink, res>>
    /\ UNCHANGED startup

\* messages.create resolves: extract, clean, cache, return.
GenerateGameResolves(c, message) ==
    /\ c \in Calls
    /\ pc[c] = "awaitCreate"
    /\ calls[c].route \in {"POST /api/generate", "generateGame"}
    /\ LET cleanCode == stripMarkdownCodeBlocks(ExtractText(message.content))
       IN  /\ TheCleanCode' = GenerateGameCache(cleanCode, TheCleanCode)
           /\ local' = [local EXCEPT ![c].result = cleanCode,
                                     ![c].phases = @ \o AfterAwait]
    /\ remote' = [remote EXCEPT ![c].outcome = "message",
                                ![c].content = message.content,
                                ![c].stop_reason = message.stop_reason]
    /\ pc' = [pc EXCEPT ![c] = "returned"]
    /\ completed' = Append(completed, c)
    /\ UNCHANGED <<calls, sink, res>>
    /\ UNCHANGED startup

\* (a variant for comparison: the catch sends the request once more before
\* it gives up)
GenerateGameRejects_Retries(c, error) ==
    /\ c \in Calls
    /\ pc[c] = "awaitCreate"
    /\ calls[c].route \in {"POST /api/generate", "generateGame"}
    /\ IF remote[c].attempts < 2
       THEN /\ remote' = [remote EXCEPT ![c].attempts = @ + 1]
            /\ UNCHANGED <<local, pc>>
       ELSE /\ local' = [local EXCEPT ![c].error = error]
            /\ remote' = [remote EXCEPT ![c].outcome = "error", ![c].error = error]
            /\ pc' = [pc EXCEPT ![c] = "threw"]
    /\ UNCHANGED <<TheCleanCode, calls, sink, res, completed>>
    /\ UNCHANGED startup

\* messages.create rejects: the catch logs and rethrows.
GenerateGameRejects(c, error) ==
    /\ c \in Calls
    /\ pc[c] = "awaitCreate"
    /\ calls[c].route \in {"POST /api/generate", "generateGame"}
    /\ local' = [local EXCEPT ![c].error = error,
                            ![c].phases = Append(@, "Failed")]
    /\ remote' = [remote EXCEPT ![c].outcome = "error", ![c].error = error]
    /\ pc' = [pc EXCEPT ![c] = "threw"]
    /\ UNCHANGED <<TheCleanCode, calls, sink, res, completed>>
    /\ UNCHANGED startup

\* A direct call of generateGame(description, library).
CallGenerateGame(description, library) ==
    LET e == GenerateGameEntry(description, library)
    IN  /\ Begin([route |-> "generateGame",
                  body |-> Body(Str(description), library, Undefined, Undefined),
                  onChunk |-> "none"],
                 e.pc, e.local, e.remote, <<>>, NoResponse)
        /\ UNCHANGED <<TheCleanCode, completed>>

(***************************************************************************)
(* POST /api/generate                                                      *)
(***************************************************************************)
ValidateGenerate(body) ==
    IF Falsy(body.description)
    THEN Rejection(400, "Description is required")
    ELSE IF body.description.t # "string"
    THEN Thrown(TypeErrorTrim)
    ELSE IF Len(Trim(body.description.s)) < MinDescriptionLength
    THEN Rejection(400, "Description is too short")
    ELSE IF Falsy(body.library)
    THEN Rejection(400, "Library is required")
    ELSE IF body.library.t # "string"
    THEN Thrown(TypeErrorToLowerCase)
    ELSE IF ToLowerCase(body.library.s) \notin {P5JS, PHASER}
    THEN Rejection(400, "Invalid library")
    ELSE Accepted(ToLowerCase(body.library.s))

\* The route up to its await of generateGame.
PostGenerate(body) ==
    LET v == ValidateGenerate(body)
        e == GenerateGameEntry(body.description.s, Str(v.library))
        call == [route |-> "POST /api/generate", body |-> body, onChunk |-> "none"]
    IN  /\ IF v.verdict = "accepted"
           THEN Begin(call, e.pc, e.local, e.remote, <<>>, NoResponse)
           ELSE Begin(call, "done", NoLocal, NoRemote, <<>>,
                      JsonResponse(v.status, ErrorBody(v.error)))
        /\ UNCHANGED <<TheCleanCode, completed>>

\* res.json({ success: true, code: gameCode, library: normalizedLibrary })
GenerateSuccessBody(gameCode, normalizedLibrary) ==
    [success |-> TRUE, code |-> gameCode, library |-> normalizedLibrary]

\* The route after generateGame returned.
GenerateResponds(c) ==
    /\ c \in Calls
    /\ pc[c] = "returned"
    /\ calls[c].route = "POST /api/generate"
    /\ res' = [res EXCEPT ![c] =
                  JsonResponse(200, GenerateSuccessBody(local[c].result, local[c].library))]
    /\ pc' = [pc EXCEPT ![c] = "done"]
    /\ UNCHANGED <<TheCleanCode, calls, local, remote, sink, completed>>
    /\ UNCHANGED startup

\* The route's catch after generateGame threw.
GenerateRespondsError(c) ==
    /\ c \in Calls
    /\ pc[c] = "threw"
    /\ calls[c].route = "POST /api/generate"
    /\ res' = [res EXCEPT ![c] = JsonResponse(500, ErrorBody(local[c].error))]
    /\ pc' = [pc EXCEPT ![c] = "done"]
    /\ UNCHANGED <<TheCleanCode, calls, local, remote, sink, completed>>
    /\ UNCHANGED startup

(***************************************************************************)
(* Events and the event sink                                               *)
(***************************************************************************)
\* A slip: chunkNumber taken before the increment.
ChunkEvent_BeforeIncrement(textDelta, textSnapshot, chunkCount) ==
    [type |-> "chunk", text |-> textDelta, full |-> textSnapshot,
     chunkNumber |-> chunkCount - 1]

\* (a variant for comparison: the delta is sent as the full text too)
ChunkEvent_FullIsDelta(textDelta, textSnapshot, chunkCount) ==
    [type |-> "chunk", text |-> textDelta, full |-> textDelta,
     chunkNumber |-> chunkCount]
\* onChunk({ type: 'chunk', text: textDelta, full: textSnapshot, chunkNumber: chunkCount })
ChunkEvent(textDelta, textSnapshot, chunkCount) ==
    [type |-> "chunk", text |-> textDelta, full |-> textSnapshot,
     chunkNumber |-> chunkCount]

\* onChunk({ type: 'complete', code: cleanCode, ..., chunks: chunkCount, ... });
\* the elapsed time and the token count are not modelled.
CompleteEvent(cleanCode, chunkCount) ==
    [type |-> "complete", code |-> cleanCode, chunks |-> chunkCount]

\* onChunk({ type: 'error', error: error.message })
ErrorEvent(message) == [type |-> "error", error |-> message]

\* `data: ${JSON.stringify(data)}\n\n`
Frame(data) == [field |-> "data", json |-> data, end |-> <<NL, NL>>]

\* The sinks a call may be given: the route's (data) => res.write(...), a
\* caller's callback that keeps the events, one that throws when handed the
\* complete event, and none at all (if (onChunk) guards every use).
DirectSinks == {"collect", "throwsOnComplete", "none"}

\* A slip: the newest events put first.
Deliver_NewestFirst(onChunk, log, events) ==
    IF onChunk = "none" THEN log ELSE events \o log

\* The events the sink was handed, after these more.
Deliver(onChunk, log, events) == IF onChunk = "none" THEN log ELSE log \o events

\* The response after the route's sink wrote these events.
WriteFrames(onChunk, response, events) ==
    IF onChunk = "res.write"
    THEN [response EXCEPT !.frames = @ \o [i \in DOMAIN events |-> Frame(events[i])]]
    ELSE response

(***************************************************************************)
(* generateGameStreaming                                                   *)
(***************************************************************************)
\* The request of anthropic.messages.stream: system is the bare prompt text.
StreamingRequest(systemPrompt, description) ==
    [NoRemote EXCEPT !.api = "stream", !.attempts = 1,
                     !.system = systemPrompt,
                     !.cache_control = "none", !.user = description,
                     !.outcome = "pending"]

\* generateGameStreaming up to its await of stream.finalMessage().
StreamingEntry(description, libraryArg, onChunk) ==
    LET library == DefaultLibrary(libraryArg)
    IN  IF library.t # "string"
        THEN [pc |-> "threw",
              local |-> [NoLocal EXCEPT !.error = TypeErrorToUpperCase,
                                        !.phases = FailedAtEntry],
              remote |-> NoRemote,
              sink |-> Deliver(onChunk, <<>>, <<ErrorEvent(TypeErrorToUpperCase)>>)]
        ELSE [pc |-> "awaitFinal",
              local |-> [NoLocal EXCEPT !.description = description,
                                        !.library = library.s,
                                        !.systemPrompt = SelectSystemPrompt(library.s),
                                        !.phases = UpToAwait],
              remote |-> StreamingRequest(SelectSystemPrompt(library.s), description),
              sink |-> <<>>]

\* chunkCount++
NextChunkCount(chunkCount) == chunkCount + 1

\* The events the 'text' listener hands to the sink for one delta.
TextEvents(textDelta, textSnapshot, chunkCount) ==
    <<ChunkEvent(textDelta, textSnapshot, chunkCount)>>

\* stream.on('text', (textDelta, textSnapshot) => ...): the provider sends a
\* delta, the client's snapshot is the text so far.
StreamText(c, textDelta) ==
    /\ c \in Calls
    /\ pc[c] = "awaitFinal"
    /\ Len(remote[c].deltas) < MaxChunks
    /\ LET textSnapshot == Concat(remote[c].deltas) \o textDelta
           chunkCount == NextChunkCount(local[c].chunkCount)
           events == TextEvents(textDelta, textSnapshot, chunkCount)
       IN  /\ local' = [local EXCEPT ![c].fullResponse = textSnapshot,
                                     ![c].chunkCount = chunkCount]
           /\ sink' = [sink EXCEPT ![c] = Deliver(calls[c].onChunk, @, events)]
           /\ res' = [res EXCEPT ![c] = WriteFrames(calls[c].onChunk, @, events)]
    /\ remote' = [remote EXCEPT ![c].deltas = Append(@, textDelta)]
    /\ UNCHANGED <<TheCleanCode, calls, pc, completed>>
    /\ UNCHANGED startup

\* (a variant for comparison: the streaming path leaves the cell alone)
StreamingCache_Keep(cleanCode, cached) == cached
\* TheCleanCode = cleanCode
StreamingCache(cleanCode, cached) == cleanCode

\* The events handed to the sink once finalMessage() resolved; a sink that
\* throws on the complete event lands in the catch, which hands it the error.
CompletionEvents(onChunk, cleanCode, chunkCount) ==
    IF onChunk = "throwsOnComplete"
    THEN <<CompleteEvent(cleanCode, chunkCount), ErrorEvent(SinkError)>>
    ELSE <<CompleteEvent(cleanCode, chunkCount)>>

\* (a variant for comparison: a call whose client has gone away returns
\* its code without putting it in the cell)
StreamingResolves_SkipsAbandoned(c, stop_reason) ==
    /\ c \in Calls
    /\ pc[c] = "awaitFinal"
    /\ LET cleanCode == stripMarkdownCodeBlocks(local[c].fullResponse)
           events == CompletionEvents(calls[c].onChunk, cleanCode, local[c].chunkCount)
       IN  /\ sink' = [sink EXCEPT ![c] = Deliver(calls[c].onChunk, @, events)]
           /\ res' = [res EXCEPT ![c] = WriteFrames(calls[c].onChunk, @, events)]
           /\ IF calls[c].onChunk = "throwsOnComplete"
              THEN /\ local' = [local EXCEPT ![c].error = SinkError,
                                             ![c].phases = @ \o FailedAfterAwait]
                   /\ pc' = [pc EXCEPT ![c] = "threw"]
                   /\ UNCHANGED <<TheCleanCode, completed>>
              ELSE /\ local' = [local EXCEPT ![c].result = cleanCode,
                                             ![c].phases = @ \o AfterAwait]
                   /\ pc' = [pc EXCEPT ![c] = "returned"]
                   /\ IF res[c].abandoned
                      THEN UNCHANGED <<TheCleanCode, completed>>
                      ELSE /\ TheCleanCode' = StreamingCache(cleanCode, TheCleanCode)
                           /\ completed' = Append(completed, c)
    /\ remote' = [remote EXCEPT ![c].outcome = "message",
                                ![c].stop_reason = stop_reason]
    /\ UNCHANGED calls
    /\ UNCHANGED startup

\* stream.finalMessage() resolves: clean, emit complete, cache, return.
StreamingResolves(c, stop_reason) ==
    /\ c \in Calls
    /\ pc[c] = "awaitFinal"
    /\ LET cleanCode == stripMarkdownCodeBlocks(local[c].fullResponse)
           events == CompletionEvents(calls[c].onChunk, cleanCode, local[c].chunkCount)
       IN  /\ sink' = [sink EXCEPT ![c] = Deliver(calls[c].onChunk, @, events)]
           /\ res' = [res EXCEPT ![c] = WriteFrames(calls[c].onChunk, @, events)]
           /\ IF calls[c].onChunk = "throwsOnComplete"
              THEN /\ local' = [local EXCEPT ![c].error = SinkError,
                                             ![c].phases = @ \o FailedAfterAwait]
                   /\ pc' = [pc EXCEPT ![c] = "threw"]
                   /\ UNCHANGED <<TheCleanCode, completed>>
              ELSE /\ TheCleanCode' = StreamingCache(cleanCode, TheCleanCode)
                   /\ local' = [local EXCEPT ![c].result = cleanCode,
                                             ![c].phases = @ \o AfterAwait]
                   /\ pc' = [pc EXCEPT ![c] = "returned"]
                   /\ completed' = Append(completed, c)
    /\ remote' = [remote EXCEPT ![c].outcome = "message",
                                ![c].stop_reason = stop_reason]
    /\ UNCHANGED calls
    /\ UNCHANGED startup

\* A slip: a catch that only rethrows, as generateGame's does.
FailureEvents_OnlyRethrow(message) == <<>>

\* The events the catch hands to the sink.
FailureEvents(message) == <<ErrorEvent(message)>>

\* (a variant for comparison: the catch keeps what was streamed so far)
StreamingRejects_CachesPartial(c, error) ==
    /\ c \in Calls
    /\ pc[c] = "awaitFinal"
    /\ sink' = [sink EXCEPT ![c] = Deliver(calls[c].onChunk, @, FailureEvents(error))]
    /\ res' = [res EXCEPT ![c] = WriteFrames(calls[c].onChunk, @, FailureEvents(error))]
    /\ local' = [local EXCEPT ![c].error = error,
                            ![c].phases = Append(@, "Failed")]
    /\ remote' = [remote EXCEPT ![c].outcome = "error", ![c].error = error]
    /\ pc' = [pc EXCEPT ![c] = "threw"]
    /\ TheCleanCode' = stripMarkdownCodeBlocks(local[c].fullResponse)
    /\ UNCHANGED <<calls, completed>>
    /\ UNCHANGED startup

\* stream.finalMessage() rejects: the catch emits the error event and rethrows.
StreamingRejects(c, error) ==
    /\ c \in Calls
    /\ pc[c] = "awaitFinal"
    /\ sink' = [sink EXCEPT ![c] = Deliver(calls[c].onChunk, @, FailureEvents(error))]
    /\ res' = [res EXCEPT ![c] = WriteFrames(calls[c].onChunk, @, FailureEvents(error))]
    /\ local' = [local EXCEPT ![c].error = error,
                            ![c].phases = Append(@, "Failed")]
    /\ remote' = [remote EXCEPT ![c].outcome = "error", ![c].error = error]
    /\ pc' = [pc EXCEPT ![c] = "threw"]
    /\ UNCHANGED <<TheCleanCode, calls, completed>>
    /\ UNCHANGED startup

\* A direct call of generateGameStreaming(description, library, onChunk).
CallGenerateGameStreaming(description, library, onChunk) ==
    LET e == StreamingEntry(description, library, onChunk)
    IN  /\ Begin([route |-> "generateGameStreaming",
                  body |-> Body(Str(description), library, Undefined, Undefined),
                  onChunk |-> onChunk],
                 e.pc, e.local, e.remote, e.sink, NoResponse)
        /\ UNCHANGED <<TheCleanCode, completed>>

(***************************************************************************)
(* POST /api/generate-stream                                               *)
(***************************************************************************)
ValidateGenerateStream(body) ==
    IF Falsy(body.description)
    THEN Rejection(400, "Description is required and must be at least 5 characters")
    ELSE IF body.description.t # "string"
    THEN Thrown(TypeErrorTrim)
    ELSE IF Len(Trim(body.description.s)) < MinDescriptionLength
    THEN Rejection(400, "Description is required and must be at least 5 characters")
    ELSE LET library == IF Falsy(body.library) THEN Str(P5JS) ELSE body.library
         IN  IF library.t # "string"
             THEN Thrown(TypeErrorToLowerCase)
             ELSE IF ToLowerCase(library.s) \notin {P5JS, PHASER}
             THEN Rejection(400, "Invalid library")
             ELSE Accepted(ToLowerCase(library.s))

\* res.setHeader('Content-Type', 'text/event-stream') and the three after it
EventStreamResponse == [NoResponse EXCEPT !.sse = TRUE]

\* The route's catch: res.write(`data: ${JSON.stringify({type: 'error', ...})}\n\n`); res.end()
CatchWritesError(response, message) ==
    [response EXCEPT !.frames = Append(@, Frame(ErrorEvent(message))),
                     !.ended = TRUE]

\* The route up to its await of generateGameStreaming.
PostGenerateStream(body) ==
    LET v == ValidateGenerateStream(body)
        e == StreamingEntry(body.description.s, Str(v.library), "res.write")
        call == [route |-> "POST /api/generate-stream", body |-> body,
                 onChunk |-> IF v.verdict = "accepted" THEN "res.write" ELSE "none"]
    IN  /\ CASE v.verdict = "accepted" ->
                   Begin(call, e.pc, e.local, e.remote, e.sink, EventStreamResponse)
             [] v.verdict = "rejected" ->
                   Begin(call, "done", NoLocal, NoRemote, <<>>,
                         JsonResponse(v.status, ErrorBody(v.error)))
             [] v.verdict = "threw" ->
                   Begin(call, "done", NoLocal, NoRemote, <<>>,
                         CatchWritesError(NoResponse, v.error))
        /\ UNCHANGED <<TheCleanCode, completed>>

\* The client goes away while the event stream is open. The route registers
\* no listener for it (no req.on('close')): nothing but the connection changes,
\* and res.write keeps being called for the events that follow.
ClientAbandons(c) ==
    /\ c \in Calls
    /\ calls[c].route = "POST /api/generate-stream"
    /\ res[c].sse
    /\ ~res[c].ended
    /\ ~res[c].abandoned
    /\ res' = [res EXCEPT ![c].abandoned = TRUE,
                          ![c].framesAtAbandon = Len(res[c].frames)]
    /\ UNCHANGED <<TheCleanCode, calls, pc, local, remote, sink, completed>>
    /\ UNCHANGED startup

\* The route after generateGameStreaming returned: res.end()
StreamResponds(c) ==
    /\ c \in Calls
    /\ pc[c] = "returned"
    /\ calls[c].route = "POST /api/generate-stream"
    /\ res' = [res EXCEPT ![c].ended = TRUE]
    /\ pc' = [pc EXCEPT ![c] = "done"]
    /\ UNCHANGED <<TheCleanCode, calls, local, remote, sink, completed>>
    /\ UNCHANGED startup

\* The route's catch after generateGameStreaming threw.
StreamRespondsError(c) ==
    /\ c \in Calls
    /\ pc[c] = "threw"
    /\ calls[c].route = "POST /api/generate-stream"
    /\ res' = [res EXCEPT ![c] = CatchWritesError(@, local[c].error)]
    /\ pc' = [pc EXCEPT ![c] = "done"]
    /\ UNCHANGED <<TheCleanCode, calls, local, remote, sink, completed>>
    /\ UNCHANGED startup

(***************************************************************************)
(* chatWithCodeAssistant and POST /api/chat                                *)
(***************************************************************************)
\* (a variant for comparison: the library argument is named in the prompt)
PromptWithCode_Library(cached, gameCode, library) ==
    AIchatbotPrompt \o library.s \o cached
\* (a variant for comparison: the prompt is built from the gameCode argument)
PromptWithCode_Args(cached, gameCode, library) == AIchatbotPrompt \o gameCode.s
\* const PromptWithCode = AIchatbotPrompt + TheCleanCode
PromptWithCode(cached, gameCode, library) == AIchatbotPrompt \o cached

\* The request of anthropic.messages.create in chatWithCodeAssistant.
ChatRequest(prompt, userMessage) ==
    [NoRemote EXCEPT !.api = "create", !.attempts = 1,
                     !.system = prompt,
                     !.cache_control = "ephemeral", !.user = userMessage,
                     !.outcome = "pending"]

\* chatWithCodeAssistant up to its await; it keeps how many generations had
\* returned when it read the cache.
ChatEntry(userMessage, gameCode, library) ==
    LET prompt == PromptWithCode(TheCleanCode, gameCode, library)
    IN  [pc |-> "awaitCreate",
         local |-> [NoLocal EXCEPT !.systemPrompt = prompt,
                                   !.cacheAtStart = Len(completed)],
         remote |-> ChatRequest(prompt, userMessage)]

\* (a variant for comparison: the reply is kept in the cell, as the
\* generation paths keep their code)
ChatResolves_Caches(c, message) ==
    /\ c \in Calls
    /\ pc[c] = "awaitCreate"
    /\ calls[c].route \in {"POST /api/chat", "chatWithCodeAssistant"}
    /\ local' = [local EXCEPT ![c].result = Trim(ExtractText(message.content))]
    /\ remote' = [remote EXCEPT ![c].outcome = "message",
                                ![c].content = message.content,
                                ![c].stop_reason = message.stop_reason]
    /\ pc' = [pc EXCEPT ![c] = "returned"]
    /\ TheCleanCode' = Trim(ExtractText(message.content))
    /\ UNCHANGED <<calls, sink, res, completed>>
    /\ UNCHANGED startup

\* (a variant for comparison: the prompt is put together from the cell when
\* the reply arrives, not when the call starts)
ChatResolves_RereadsCache(c, message) ==
    /\ c \in Calls
    /\ pc[c] = "awaitCreate"
    /\ calls[c].route \in {"POST /api/chat", "chatWithCodeAssistant"}
    /\ local' = [local EXCEPT ![c].result = Trim(ExtractText(message.content)),
                              ![c].systemPrompt = AIchatbotPrompt \o TheCleanCode]
    /\ remote' = [remote EXCEPT ![c].outcome = "message",
                                ![c].system = AIchatbotPrompt \o TheCleanCode,
                                ![c].content = message.content,
                                ![c].stop_reason = message.stop_reason]
    /\ pc' = [pc EXCEPT ![c] = "returned"]
    /\ UNCHANGED <<TheCleanCode, calls, sink, res, completed>>
    /\ UNCHANGED startup

\* return response.trim()
ChatResolves(c, message) ==
    /\ c \in Calls
    /\ pc[c] = "awaitCreate"
    /\ calls[c].route \in {"POST /api/chat", "chatWithCodeAssistant"}
    /\ local' = [local EXCEPT ![c].result = Trim(ExtractText(message.content))]
    /\ remote' = [remote EXCEPT ![c].outcome = "message",
                                ![c].content = message.content,
                                ![c].stop_reason = message.stop_reason]
    /\ pc' = [pc EXCEPT ![c] = "returned"]
    /\ UNCHANGED <<TheCleanCode, calls, sink, res, completed>>
    /\ UNCHANGED startup

ChatRejects(c, error) ==
    /\ c \in Calls
    /\ pc[c] = "awaitCreate"
    /\ calls[c].route \in {"POST /api/chat", "chatWithCodeAssistant"}
    /\ local' = [local EXCEPT ![c].error = error]
    /\ remote' = [remote EXCEPT ![c].outcome = "error", ![c].error = error]
    /\ pc' = [pc EXCEPT ![c] = "threw"]
    /\ UNCHANGED <<TheCleanCode, calls, sink, res, completed>>
    /\ UNCHANGED startup

\* A direct call of chatWithCodeAssistant(userMessage, gameCode, library).
CallChatWithCodeAssistant(userMessage, gameCode, library) ==
    LET e == ChatEntry(userMessage, gameCode, library)
    IN  /\ Begin([route |-> "chatWithCodeAssistant",
                  body |-> Body(Undefined, library, Str(userMessage), gameCode),
                  onChunk |-> "none"],
                 e.pc, e.local, e.remote, <<>>, NoResponse)
        /\ UNCHANGED <<TheCleanCode, completed>>

ValidateChat(body) ==
    IF Falsy(body.message)
    THEN Rejection(400, "Message is required")
    ELSE IF body.message.t # "string"
    THEN Thrown(TypeErrorMessageTrim)
    ELSE IF Len(Trim(body.message.s)) = 0
    THEN Rejection(400, "Message is required")
    ELSE IF Falsy(body.gameCode) \/ Falsy(body.library)
    THEN Rejection(400, "Game code and library information are required")
    ELSE Accepted(<<>>)

\* The route up to its await of chatWithCodeAssistant.
PostChat(body) ==
    LET v == ValidateChat(body)
        e == ChatEntry(body.message.s, body.gameCode, body.library)
        call == [route |-> "POST /api/chat", body |-> body, onChunk |-> "none"]
    IN  /\ IF v.verdict = "accepted"
           THEN Begin(call, e.pc, e.local, e.remote, <<>>, NoResponse)
           ELSE Begin(call, "done", NoLocal, NoRemote, <<>>,
                      JsonResponse(v.status, ErrorBody(v.error)))
        /\ UNCHANGED <<TheCleanCode, completed>>

\* res.json({ success: true, reply })
ChatResponds(c) ==
    /\ c \in Calls
    /\ pc[c] = "returned"
    /\ calls[c].route = "POST /api/chat"
    /\ res' = [res EXCEPT ![c] =
                  JsonResponse(200, [success |-> TRUE, reply |-> local[c].result])]
    /\ pc' = [pc EXCEPT ![c] = "done"]
    /\ UNCHANGED <<TheCleanCode, calls, local, remote, sink, completed>>
    /\ UNCHANGED startup

ChatRespondsError(c) ==
    /\ c \in Calls
    /\ pc[c] = "threw"
    /\ calls[c].route = "POST /api/chat"
    /\ res' = [res EXCEPT ![c] = JsonResponse(500, ErrorBody(local[c].error))]
    /\ pc' = [pc EXCEPT ![c] = "done"]
    /\ UNCHANGED <<TheCleanCode, calls, local, remote, sink, completed>>
    /\ UNCHANGED startup

(***************************************************************************)
(* Inputs                                                                  *)
(***************************************************************************)
GoodDescription == <<"a", " ", "b", "a", "l", "l">>
FixIt == <<"f", "i", "x">>
OldCode == <<"o", "l", "d">>

\* What a request body may hold: each value takes one branch of a validation.
Descriptions == {Undefined, Str(<<>>), Str(<<"h", "i">>),
                 Str(<<" ", " ", "h", "i", " ", " ", " ">>),
                 Str(GoodDescription), Number5}
Libraries == {Undefined, Str(<<>>), Str(P5JS), Str(<<"P", "5", "J", "S">>),
              Str(PHASER), Str(<<"u", "n", "i", "t", "y">>), Number5}
ChatMessages == {Undefined, Str(<<" ">>), Str(FixIt), Number5}

\* One field varies, the other is one the route accepts.
GenerateBodies ==
    {Body(d, Str(PHASER), Undefined, Undefined) : d \in Descriptions}
    \cup {Body(Str(GoodDescription), l, Undefined, Undefined) : l \in Libraries}
ChatBodies ==
    {Body(Undefined, Str(P5JS), m, Str(OldCode)) : m \in ChatMessages}
    \cup {Body(Undefined, Undefined, Str(FixIt), Str(OldCode)),
          Body(Undefined, Str(PHASER), Str(FixIt), Undefined)}

\* Requests the routes accept.
GoodGenerateBody == Body(Str(GoodDescription), Str(P5JS), Undefined, Undefined)
GoodStreamBody == Body(Str(GoodDescription), Str(PHASER), Undefined, Undefined)
GoodChatBody == Body(Undefined, Str(P5JS), Str(FixIt), Str(OldCode))

\* Chat requests the route accepts, with different code and library.
NewCode == <<"n", "e", "w">>
AcceptedChatBodies ==
    {GoodChatBody, Body(Undefined, Str(PHASER), Str(FixIt), Str(NewCode))}
\* What a direct caller may pass for gameCode and library: the function's own
\* example passes neither.
ChatArguments == {Undefined, Str(NewCode)}

\* Short replies, each cleaned to a text of its own.
ShortMessages ==
    { [content |-> <<TextBlock(<<Star, Star, "a", Star, Star>>)>>,
       stop_reason |-> "end_turn"],
      [content |-> <<TextBlock(Fence), ToolUseBlock, TextBlock(<<"b", NL>>)>>,
       stop_reason |-> "max_tokens"] }
ShortDeltas == {<<Hash, " ", "c", NL>>}

\* Raw texts for the sanitizer: every text of a few characters over the
\* characters its patterns look at, and some longer ones.
MaxTextLen == 3
SanitizerAlphabet == {Star, Hash, Hyphen, NL, " ", "a"}
ShortTexts == UNION {[1..n -> SanitizerAlphabet] : n \in 0..MaxTextLen}
NestedBold == <<"*", "*", "*", "*", "a", "*", "*", "*", "*">>
StackedHeaders == <<"#", " ", "#", " ", "x">>
HeaderOfHyphens == <<"#", " ", "-", "-", "-">>
MarkdownExample ==
    <<BackTick, BackTick, BackTick, "j", "s", NL,
      "*", "*", "b", "o", "l", "d", "*", "*", " ", "t", "e", "x", "t", NL,
      "-", "-", "-", NL,
      "#", " ", "H", "e", "a", "d", "i", "n", "g", NL, NL, NL, NL,
      "l", "i", "n", "e", NL,
      BackTick, BackTick, BackTick>>
RawTexts ==
    ShortTexts \cup {NestedBold, StackedHeaders, HeaderOfHyphens, MarkdownExample,
                     FencedReply}

(***************************************************************************)
(* Specifications                                                          *)
(***************************************************************************)
\* Room for one more call.
Fewer(limit) == Len(calls) < limit

\* Concurrent requests the routes accept, and a direct streaming call whose
\* sink throws; short replies, streams of one kind of delta.
Next ==
    \/ Fewer(MaxCalls) /\ PostGenerate(GoodGenerateBody)
    \/ Fewer(MaxCalls) /\ PostGenerateStream(GoodStreamBody)
    \/ Fewer(MaxCalls) /\ PostChat(GoodChatBody)
    \/ Fewer(MaxCalls)
         /\ CallGenerateGameStreaming(GoodDescription, Undefined, "throwsOnComplete")
    \/ \E c \in 1..MaxCalls, message \in ShortMessages : GenerateGameResolves(c, message)
    \/ \E c \in 1..MaxCalls, error \in ProviderErrors : GenerateGameRejects(c, error)
    \/ \E c \in 1..MaxCalls, textDelta \in ShortDeltas : StreamText(c, textDelta)
    \/ \E c \in 1..MaxCalls, stop_reason \in StopReasons :
          StreamingResolves(c, stop_reason)
    \/ \E c \in 1..MaxCalls, error \in ProviderErrors : StreamingRejects(c, error)
    \/ \E c \in 1..MaxCalls, message \in ShortMessages : ChatResolves(c, message)
    \/ \E c \in 1..MaxCalls, error \in ProviderErrors : ChatRejects(c, error)
    \/ \E c \in 1..MaxCalls : GenerateResponds(c)
    \/ \E c \in 1..MaxCalls : GenerateRespondsError(c)
    \/ \E c \in 1..MaxCalls : StreamResponds(c)
    \/ \E c \in 1..MaxCalls : StreamRespondsError(c)
    \/ \E c \in 1..MaxCalls : ChatResponds(c)
    \/ \E c \in 1..MaxCalls : ChatRespondsError(c)

Spec == Init /\ [][Next]_vars

\* Streaming calls, through the route and direct with each kind of sink.
NextStreaming ==
    \/ Fewer(MaxStreams) /\ PostGenerateStream(GoodStreamBody)
    \/ \E onChunk \in DirectSinks :
          Fewer(MaxStreams)
            /\ CallGenerateGameStreaming(GoodDescription, Str(P5JS), onChunk)
    \/ \E c \in 1..MaxStreams, textDelta \in TextDeltas : StreamText(c, textDelta)
    \/ \E c \in 1..MaxStreams, stop_reason \in StopReasons :
          StreamingResolves(c, stop_reason)
    \/ \E c \in 1..MaxStreams, error \in ProviderErrors : StreamingRejects(c, error)
    \/ \E c \in 1..MaxStreams : StreamResponds(c)
    \/ \E c \in 1..MaxStreams : StreamRespondsError(c)

SpecStreaming == Init /\ [][NextStreaming]_vars

\* Requests of every kind, valid or not, a few at a time.
NextTransport ==
    \/ \E body \in GenerateBodies : Fewer(MaxRequests) /\ PostGenerate(body)
    \/ \E body \in GenerateBodies : Fewer(MaxRequests) /\ PostGenerateStream(body)
    \/ \E body \in ChatBodies : Fewer(MaxRequests) /\ PostChat(body)
    \/ \E c \in 1..MaxRequests, message \in Messages : GenerateGameResolves(c, message)
    \/ \E c \in 1..MaxRequests, error \in ProviderErrors : GenerateGameRejects(c, error)
    \/ \E c \in 1..MaxRequests : StreamText(c, LetX)
    \/ \E c \in 1..MaxRequests : StreamingResolves(c, "end_turn")
    \/ \E c \in 1..MaxRequests, error \in ProviderErrors : StreamingRejects(c, error)
    \/ \E c \in 1..MaxRequests, message \in Messages : ChatResolves(c, message)
    \/ \E c \in 1..MaxRequests, error \in ProviderErrors : ChatRejects(c, error)
    \/ \E c \in 1..MaxRequests : GenerateResponds(c)
    \/ \E c \in 1..MaxRequests : GenerateRespondsError(c)
    \/ \E c \in 1..MaxRequests : StreamResponds(c)
    \/ \E c \in 1..MaxRequests : StreamRespondsError(c)
    \/ \E c \in 1..MaxRequests : ChatResponds(c)
    \/ \E c \in 1..MaxRequests : ChatRespondsError(c)

SpecTransport == Init /\ [][NextTransport]_vars

\* Chat calls with different gameCode and library, through the route and
\* direct, among generation requests.
NextChat ==
    \/ Fewer(MaxCalls) /\ PostGenerate(GoodGenerateBody)
    \/ \E body \in AcceptedChatBodies : Fewer(MaxCalls) /\ PostChat(body)
    \/ \E argument \in ChatArguments :
          Fewer(MaxCalls) /\ CallChatWithCodeAssistant(FixIt, argument, argument)
    \/ \E c \in 1..MaxCalls, message \in ShortMessages : GenerateGameResolves(c, message)
    \/ \E c \in 1..MaxCalls, error \in ProviderErrors : GenerateGameRejects(c, error)
    \/ \E c \in 1..MaxCalls, message \in ShortMessages : ChatResolves(c, message)
    \/ \E c \in 1..MaxCalls, error \in ProviderErrors : ChatRejects(c, error)
    \/ \E c \in 1..MaxCalls : GenerateResponds(c)
    \/ \E c \in 1..MaxCalls : GenerateRespondsError(c)
    \/ \E c \in 1..MaxCalls : ChatResponds(c)
    \/ \E c \in 1..MaxCalls : ChatRespondsError(c)

SpecChat == Init /\ [][NextChat]_vars

\* Generation with every kind of library value, through both routes and by
\* direct calls of both functions.
NextLibrary ==
    \/ \E library \in Libraries :
          Fewer(MaxRequests)
            /\ PostGenerate(Body(Str(GoodDescription), library, Undefined, Undefined))
    \/ \E library \in Libraries :
          Fewer(MaxRequests)
            /\ PostGenerateStream(Body(Str(GoodDescription), library, Undefined, Undefined))
    \/ \E library \in Libraries :
          Fewer(MaxRequests) /\ CallGenerateGame(GoodDescription, library)
    \/ \E library \in Libraries :
          Fewer(MaxRequests)
            /\ CallGenerateGameStreaming(GoodDescription, library, "collect")
    \/ \E c \in 1..MaxRequests, message \in ShortMessages : GenerateGameResolves(c, message)
    \/ \E c \in 1..MaxRequests, textDelta \in ShortDeltas : StreamText(c, textDelta)
    \/ \E c \in 1..MaxRequests : StreamingResolves(c, "end_turn")
    \/ \E c \in 1..MaxRequests : GenerateResponds(c)
    \/ \E c \in 1..MaxRequests : StreamResponds(c)

SpecLibrary == Init /\ [][NextLibrary]_vars

\* Streaming requests whose client may go away, among chat requests.
NextAbandon ==
    \/ Fewer(MaxRequests) /\ PostGenerateStream(GoodStreamBody)
    \/ Fewer(MaxRequests) /\ PostChat(GoodChatBody)
    \/ \E c \in 1..MaxRequests : ClientAbandons(c)
    \/ \E c \in 1..MaxRequests, textDelta \in ShortDeltas : StreamText(c, textDelta)
    \/ \E c \in 1..MaxRequests, stop_reason \in StopReasons :
          StreamingResolves(c, stop_reason)
    \/ \E c \in 1..MaxRequests, error \in ProviderErrors : StreamingRejects(c, error)
    \/ \E c \in 1..MaxRequests, message \in ShortMessages : ChatResolves(c, message)
    \/ \E c \in 1..MaxRequests : StreamResponds(c)
    \/ \E c \in 1..MaxRequests : StreamRespondsError(c)
    \/ \E c \in 1..MaxRequests : ChatResponds(c)

SpecAbandon == Init /\ [][NextAbandon]_vars

\* Requests to the streaming route, valid or not, to their end. The provider's
\* stream ends one way or the other if it ends; a handler whose await has
\* settled is resumed by the event loop.
ProviderSettles(c) ==
    \/ \E stop_reason \in StopReasons : StreamingResolves(c, stop_reason)
    \/ \E error \in ProviderErrors : StreamingRejects(c, error)

NextStreamRoute ==
    \/ \E body \in GenerateBodies : Fewer(MaxRequests) /\ PostGenerateStream(body)
    \/ \E c \in 1..MaxRequests : StreamText(c, LetX)
    \/ \E c \in 1..MaxRequests : ProviderSettles(c)
    \/ \E c \in 1..MaxRequests : StreamResponds(c)
    \/ \E c \in 1..MaxRequests : StreamRespondsError(c)

SpecStreamRoute ==
    /\ Init
    /\ [][NextStreamRoute]_vars
    /\ \A c \in 1..MaxRequests :
          /\ WF_vars(StreamResponds(c))
          /\ WF_vars(StreamRespondsError(c))

\* The process from its start, with the files readable or not, and the
\* requests it serves once it listens.
NextStartup ==
    \/ ReadPrompt
    \/ Listen
    \/ Fewer(MaxRequests) /\ PostGenerate(GoodGenerateBody)
    \/ Fewer(MaxRequests) /\ PostGenerateStream(GoodStreamBody)
    \/ Fewer(MaxRequests) /\ PostChat(GoodChatBody)
    \/ \E c \in 1..MaxRequests, message \in ShortMessages : GenerateGameResolves(c, message)
    \/ \E c \in 1..MaxRequests, textDelta \in ShortDeltas : StreamText(c, textDelta)
    \/ \E c \in 1..MaxRequests : StreamingResolves(c, "end_turn")
    \/ \E c \in 1..MaxRequests, message \in ShortMessages : ChatResolves(c, message)
    \/ \E c \in 1..MaxRequests : GenerateResponds(c)
    \/ \E c \in 1..MaxRequests : StreamResponds(c)
    \/ \E c \in 1..MaxRequests : ChatResponds(c)

SpecStartup == InitStartup /\ [][NextStartup]_vars

\* One generateGame call a run, replied to with any raw text in one segment.
NextSanitizer ==
    \/ calls = <<>> /\ CallGenerateGame(GoodDescription, Str(P5JS))
    \/ \E rawText \in RawTexts, stop_reason \in StopReasons :
          GenerateGameResolves(1, [content |-> <<TextBlock(rawText)>>,
                                   stop_reason |-> stop_reason])

SpecSanitizer == Init /\ [][NextSanitizer]_vars

(***************************************************************************)
(* What the claims speak of                                                *)
(***************************************************************************)
StreamingCalls ==
    {c \in Calls : calls[c].route \in {"POST /api/generate-stream", "generateGameStreaming"}}
GenerationCalls ==
    {c \in Calls : calls[c].route \in {"POST /api/generate", "generateGame",
                                        "POST /api/generate-stream",
                                        "generateGameStreaming"}}
ChatCalls == {c \in Calls : calls[c].route \in {"POST /api/chat", "chatWithCodeAssistant"}}

IsChunk(e) == e.type = "chunk"
IsComplete(e) == e.type = "complete"
IsError(e) == e.type = "error"
IsTerminal(e) == e.type \in {"complete", "error"}

\* The chunk events a sink was handed, in the order it was handed them.
ChunkEvents(c) == SelectSeq(sink[c], IsChunk)

\* The text segments of a reply, in order, joined.
SegmentsText(content) ==
    LET IsText(b) == b.type = "text"
        segments == SelectSeq(content, IsText)
    IN  Concat([i \in DOMAIN segments |-> segments[i].text])

\* The text the provider delivered to a call.
RawOutput(c) ==
    IF remote[c].api = "stream" THEN Concat(remote[c].deltas)
    ELSE SegmentsText(remote[c].content)

IsSubstring(a, b) ==
    \E i \in 0..(Len(b) - Len(a)) : \A k \in 1..Len(a) : b[i + k] = a[k]

(***************************************************************************)
(* C1: within one generateGameStreaming call the sink is handed the chunk  *)
(* events in the order the provider sent the text deltas, one per delta,   *)
(* and no chunk event follows the complete (or any terminal) event.        *)
(***************************************************************************)
ChunksInStreamOrder ==
    \A c \in StreamingCalls :
        calls[c].onChunk # "none" =>
            /\ [i \in DOMAIN ChunkEvents(c) |-> ChunkEvents(c)[i].text] = remote[c].deltas
            /\ \A i, j \in DOMAIN sink[c] :
                  (i < j /\ IsTerminal(sink[c][i])) => ~IsChunk(sink[c][j])
            /\ \A i \in DOMAIN sink[c] :
                  IsComplete(sink[c][i]) =>
                      Len(SelectSeq(SubSeq(sink[c], 1, i), IsChunk)) = Len(remote[c].deltas)

\* Two different deltas were delivered in the order sent, then the complete event.
ChunksInStreamOrderWitness ==
    \E c \in StreamingCalls :
        /\ remote[c].deltas = <<FenceOpen, LetX>>
        /\ Len(sink[c]) = 3
        /\ sink[c][1].type = "chunk" /\ sink[c][1].text = FenceOpen
        /\ sink[c][2].type = "chunk" /\ sink[c][2].text = LetX
        /\ sink[c][3].type = "complete"

(***************************************************************************)
(* C2: the k-th chunk event of a call carries chunkNumber k: the numbers   *)
(* start at 1 and go up by one.                                            *)
(***************************************************************************)
ChunkNumbersCount ==
    \A c \in StreamingCalls :
        \A k \in DOMAIN ChunkEvents(c) : ChunkEvents(c)[k].chunkNumber = k

\* A call delivered as many chunks as the bound allows, the last numbered so.
ChunkNumbersCountWitness ==
    \E c \in StreamingCalls :
        /\ Len(ChunkEvents(c)) = MaxChunks
        /\ ChunkEvents(c)[1].chunkNumber = 1
        /\ ChunkEvents(c)[MaxChunks].chunkNumber = MaxChunks

(***************************************************************************)
(* C3: when the provider's stream fails, before or after chunks, the sink  *)
(* is handed exactly one error event, which carries the provider's         *)
(* message, and no complete event; the error is thrown to the caller.      *)
(***************************************************************************)
StreamFailureOneErrorEvent ==
    \A c \in StreamingCalls :
        (remote[c].outcome = "error" /\ calls[c].onChunk # "none") =>
            /\ SelectSeq(sink[c], IsError) = <<ErrorEvent(remote[c].error)>>
            /\ SelectSeq(sink[c], IsComplete) = <<>>
            /\ IsError(sink[c][Len(sink[c])])
            /\ pc[c] \in {"threw", "done"}
            /\ local[c].error = remote[c].error

\* The provider failed after a chunk was delivered.
StreamFailureOneErrorEventWitness ==
    \E c \in StreamingCalls :
        /\ remote[c].outcome = "error"
        /\ pc[c] = "threw"
        /\ Len(sink[c]) = 2
        /\ IsChunk(sink[c][1])
        /\ sink[c][2] = ErrorEvent("429 rate_limit_error")

(***************************************************************************)
(* C4: on the /api/generate-stream response no frame follows a complete or *)
(* error frame: the response carries exactly one terminal event.           *)
(***************************************************************************)
WireEndsAtFirstTerminal ==
    \A c \in Calls :
        calls[c].route = "POST /api/generate-stream" =>
            \A i \in DOMAIN res[c].frames :
                IsTerminal(res[c].frames[i].json) => i = Len(res[c].frames)

(***************************************************************************)
(* C5: in every state the cache cell holds the cleaned output of the       *)
(* generation (generateGame or generateGameStreaming, from any caller)     *)
(* that returned most recently, and the empty text while none has returned;*)
(* chat calls never change it.                                             *)
(***************************************************************************)
\* The cleaned output of a generation call, from what the provider sent it.
SanitizedOutput(c) == stripMarkdownCodeBlocks(RawOutput(c))

CacheIsLatestCompleted ==
    TheCleanCode = IF completed = <<>> THEN <<>>
                   ELSE SanitizedOutput(completed[Len(completed)])

\* A streaming call and a generateGame call with different outputs have both
\* returned, a chat call has been answered, and the cache holds the later
\* generation's output, not the earlier one's.
CacheIsLatestCompletedWitness ==
    /\ Len(completed) = 2
    /\ remote[completed[1]].api = "create"
    /\ remote[completed[2]].api = "stream"
    /\ SanitizedOutput(completed[1]) # SanitizedOutput(completed[2])
    /\ TheCleanCode = SanitizedOutput(completed[2])
    /\ TheCleanCode # <<>>
    /\ \E k \in ChatCalls : pc[k] = "done" /\ k > completed[1]

(***************************************************************************)
(* C6, as stated: once a generation call has returned, the system prompt   *)
(* of every chat call that starts afterwards contains that call's cleaned  *)
(* output.                                                                 *)
(***************************************************************************)
\* The chat calls that got as far as building their prompt.
PromptingChats == {k \in ChatCalls : remote[k].api = "create"}

ChatPromptContainsEveryEarlierOutput ==
    \A p \in DOMAIN completed :
        \A k \in PromptingChats :
            local[k].cacheAtStart >= p =>
                IsSubstring(SanitizedOutput(completed[p]), remote[k].system)

(***************************************************************************)
(* C6, amended: once a generation call has returned, the system prompt of  *)
(* a chat call that starts afterwards, before any other generation         *)
(* returns, contains that call's cleaned output.                           *)
(***************************************************************************)
ChatPromptContainsLatestOutput ==
    \A p \in DOMAIN completed :
        \A k \in PromptingChats :
            local[k].cacheAtStart = p =>
                IsSubstring(SanitizedOutput(completed[p]), remote[k].system)

\* A chat call started right after a generation with a non-empty output, was
\* sent to the provider with that output inside its prompt, and a second
\* generation with another output has returned since.
ChatPromptContainsLatestOutputWitness ==
    \E k \in PromptingChats :
        /\ local[k].cacheAtStart = 1
        /\ SanitizedOutput(completed[1]) # <<>>
        /\ remote[k].system = AIchatbotPrompt \o SanitizedOutput(completed[1])
        /\ Len(completed) = 2
        /\ SanitizedOutput(completed[2]) # SanitizedOutput(completed[1])

(***************************************************************************)
(* C7: the cache cell is last-writer-wins by completion order. For         *)
(* generation calls A and B where A started first and B returned first: a  *)
(* chat call that starts after B returned and before any later generation  *)
(* returns sends the prompt built from B's output, and when A is the       *)
(* latest to have returned the cell holds A's output, although A started   *)
(* before B.                                                               *)
(***************************************************************************)
HasCompleted(c) == \E p \in DOMAIN completed : completed[p] = c
Position(c) == CHOOSE p \in DOMAIN completed : completed[p] = c

LastWriterWinsByCompletion ==
    \A a, b \in GenerationCalls :
        (/\ a < b
         /\ HasCompleted(b)
         /\ pc[a] \notin {"threw", "done"} \/ HasCompleted(a)
         /\ HasCompleted(a) => Position(b) < Position(a)) =>
            /\ \A k \in PromptingChats :
                  local[k].cacheAtStart = Position(b) =>
                      remote[k].system = AIchatbotPrompt \o SanitizedOutput(b)
            /\ (HasCompleted(a) /\ Position(a) = Len(completed)) =>
                  TheCleanCode = SanitizedOutput(a)

\* A started before B, B returned first, a chat call started then and was
\* sent B's output, and A has returned since with another output, which the
\* cell now holds.
LastWriterWinsByCompletionWitness ==
    \E a, b \in GenerationCalls :
        /\ a < b
        /\ completed = <<b, a>>
        /\ SanitizedOutput(a) # SanitizedOutput(b)
        /\ SanitizedOutput(b) # <<>>
        /\ \E k \in PromptingChats :
              /\ local[k].cacheAtStart = 1
              /\ remote[k].system = AIchatbotPrompt \o SanitizedOutput(b)
        /\ TheCleanCode = SanitizedOutput(a)

(***************************************************************************)
(* C8: on POST /api/generate and POST /api/generate-stream a request whose *)
(* description is absent, empty or shorter than 5 characters once trimmed, *)
(* or whose library is given and is not p5js or phaser (in any case of     *)
(* letters), is answered with a 4xx status and a body with success false,  *)
(* the provider is not called and the request never writes the cache.      *)
(***************************************************************************)
GenerationRoutes == {"POST /api/generate", "POST /api/generate-stream"}

BadDescription(description) ==
    \/ Falsy(description)
    \/ description.t = "string" /\ Len(Trim(description.s)) < 5

BadLibrary(library) ==
    /\ ~Falsy(library)
    /\ ~(library.t = "string" /\ ToLowerCase(library.s) \in {P5JS, PHASER})

InvalidRequestsGet4xx ==
    \A c \in Calls :
        (/\ calls[c].route \in GenerationRoutes
         /\ BadDescription(calls[c].body.description)
              \/ BadLibrary(calls[c].body.library)) =>
            /\ pc[c] = "done"
            /\ res[c].status \in 400..499
            /\ Len(res[c].json) = 1 /\ res[c].json[1].success = FALSE
            /\ remote[c].api = "none"
            /\ ~HasCompleted(c)

(***************************************************************************)
(* C9: a request whose provider call failed is answered, once its route    *)
(* has finished, with the provider's message unchanged: a 5xx status and a *)
(* body {success: false, error: message} on /api/generate and /api/chat,   *)
(* an ended event stream whose error events all carry the message on       *)
(* /api/generate-stream. The failure changes no other request: every       *)
(* request whose provider call succeeded is answered with 200 and success, *)
(* also when it came after a failed one.                                   *)
(***************************************************************************)
ProviderFailureIsRequestFatalOnly ==
    \A c \in Calls :
        /\ (pc[c] = "done" /\ remote[c].outcome = "error") =>
              IF calls[c].route = "POST /api/generate-stream"
              THEN /\ res[c].ended
                   /\ \E i \in DOMAIN res[c].frames : IsError(res[c].frames[i].json)
                   /\ \A i \in DOMAIN res[c].frames :
                         IsError(res[c].frames[i].json) =>
                             res[c].frames[i].json =
                                 [type |-> "error", error |-> remote[c].error]
              ELSE /\ res[c].status \in 500..599
                   /\ res[c].json = <<[success |-> FALSE, error |-> remote[c].error]>>
        /\ (pc[c] = "done" /\ remote[c].outcome = "message") =>
              /\ res[c].status = 200
              /\ res[c].ended
              /\ IF calls[c].route = "POST /api/generate-stream"
                 THEN IsComplete(res[c].frames[Len(res[c].frames)].json)
                 ELSE Len(res[c].json) = 1 /\ res[c].json[1].success = TRUE

\* A /api/generate request was answered 500 with the provider's message, and
\* a request received after that answer was served with success.
ProviderFailureIsRequestFatalOnlyWitness ==
    /\ Len(calls) = 2
    /\ calls[1].route = "POST /api/generate"
    /\ remote[1].outcome = "error"
    /\ res[1].status = 500
    /\ res[1].json = <<[success |-> FALSE, error |-> "429 rate_limit_error"]>>
    /\ calls[2].route \in {"POST /api/generate", "POST /api/chat"}
    /\ pc[2] = "done"
    /\ remote[2].outcome = "message"
    /\ res[2].status = 200
    /\ res[2].json[1].success = TRUE

(***************************************************************************)
(* C10: a valid /api/generate request whose provider call succeeded is     *)
(* answered 200 with {success: true, code, library}: code is the sanitizer *)
(* applied to the reply's text segments joined in order, other segments    *)
(* skipped, and library is the request's library in lower case. A reply of *)
(* one js-fenced block around "// code\nfunction setup(){}" gives exactly  *)
(* that code.                                                              *)
(***************************************************************************)
CodeOfTheExample ==
    <<"/", "/", " ", "c", "o", "d", "e", NL,
      "f", "u", "n", "c", "t", "i", "o", "n", " ",
      "s", "e", "t", "u", "p", "(", ")", "{", "}">>

GenerateAnswersCleanCode ==
    \A c \in Calls :
        (/\ calls[c].route = "POST /api/generate"
         /\ pc[c] = "done"
         /\ remote[c].outcome = "message") =>
            /\ res[c].status = 200
            /\ res[c].json =
                  <<[success |-> TRUE,
                     code |-> stripMarkdownCodeBlocks(SegmentsText(remote[c].content)),
                     library |-> ToLowerCase(calls[c].body.library.s)]>>
            /\ remote[c].content = <<TextBlock(FencedReply)>> =>
                  res[c].json[1].code = CodeOfTheExample

\* The example, asked for with the library in capitals, and a reply of two
\* text segments around a segment of another type.
GenerateAnswersCleanCodeWitness ==
    /\ \E c \in Calls :
          /\ calls[c].route = "POST /api/generate"
          /\ calls[c].body.library = Str(<<"P", "5", "J", "S">>)
          /\ remote[c].content = <<TextBlock(FencedReply)>>
          /\ res[c].json = <<[success |-> TRUE, code |-> CodeOfTheExample,
                              library |-> P5JS]>>
    /\ \E c \in Calls :
          /\ calls[c].route = "POST /api/generate"
          /\ Len(remote[c].content) = 3
          /\ res[c].json = <<[success |-> TRUE, code |-> <<"l", "e", "t", " ", "x", ";">>,
                              library |-> calls[c].body.library.s]>>

(***************************************************************************)
(* C11: for a streaming call that emitted its complete event, the texts of *)
(* the chunk events joined in the order emitted equal the full text of the *)
(* last chunk event (the empty text when there was no chunk), and the      *)
(* sanitizer applied to that full text is the code of the complete event.  *)
(***************************************************************************)
\* The full text carried by the last chunk event a sink was handed.
LastFullText(c) ==
    IF ChunkEvents(c) = <<>> THEN <<>>
    ELSE ChunkEvents(c)[Len(ChunkEvents(c))].full

CompleteCodeIsCleanedFullText ==
    \A c \in StreamingCalls :
        \A i \in DOMAIN sink[c] :
            IsComplete(sink[c][i]) =>
                /\ Concat([k \in DOMAIN ChunkEvents(c) |-> ChunkEvents(c)[k].text])
                      = LastFullText(c)
                /\ sink[c][i].code = stripMarkdownCodeBlocks(LastFullText(c))

\* One call completed after two different deltas, with the code the two give
\* once cleaned; another completed without any chunk, with the empty code.
CompleteCodeIsCleanedFullTextWitness ==
    /\ \E c \in StreamingCalls :
          /\ pc[c] \in {"returned", "done"}
          /\ Len(sink[c]) = 3
          /\ sink[c][1].text = FenceOpen /\ sink[c][2].text = LetX
          /\ sink[c][2].full = FenceOpen \o LetX
          /\ IsComplete(sink[c][3])
          /\ sink[c][3].code = <<"l", "e", "t", " ", "x", ";">>
    /\ \E c \in StreamingCalls :
          /\ pc[c] \in {"returned", "done"}
          /\ Len(sink[c]) = 1
          /\ IsComplete(sink[c][1])
          /\ sink[c][1].code = <<>>

(***************************************************************************)
(* C12: stripMarkdownCodeBlocks is idempotent: applied to the text it      *)
(* returned, it returns that text again, for every raw text.               *)
(***************************************************************************)
SanitizerIsIdempotent ==
    \A c \in Calls :
        (calls[c].route = "generateGame" /\ pc[c] = "returned") =>
            stripMarkdownCodeBlocks(local[c].result) = local[c].result

(***************************************************************************)
(* C13: for the raw text "```js\n**bold** text\n---\n# Heading\n\n\n\n     *)
(* line\n```" stripMarkdownCodeBlocks returns exactly                      *)
(* "bold text\nHeading\n\nline".                                           *)
(***************************************************************************)
MarkdownExampleClaimed ==
    <<"b", "o", "l", "d", " ", "t", "e", "x", "t", NL,
      "H", "e", "a", "d", "i", "n", "g", NL, NL,
      "l", "i", "n", "e">>

MarkdownExampleCleansAsClaimed ==
    \A c \in Calls :
        (/\ calls[c].route = "generateGame"
         /\ pc[c] = "returned"
         /\ remote[c].content = <<TextBlock(MarkdownExample)>>) =>
            local[c].result = MarkdownExampleClaimed

(***************************************************************************)
(* C14: the system prompt a chat call sends is exactly the assistant       *)
(* template followed by the value the cache had when the call started, and *)
(* two chat calls that started in the same cache state with the same       *)
(* message send the same prompt, whatever gameCode and library they were   *)
(* given.                                                                  *)
(***************************************************************************)
\* The value of the cache once p generations had returned.
CacheAfter(p) == IF p = 0 THEN <<>> ELSE SanitizedOutput(completed[p])

ChatPromptIgnoresArguments ==
    \A k \in PromptingChats :
        /\ remote[k].system = AIchatbotPrompt \o CacheAfter(local[k].cacheAtStart)
        /\ \A j \in PromptingChats :
              (/\ local[j].cacheAtStart = local[k].cacheAtStart
               /\ calls[j].body.message = calls[k].body.message) =>
                  remote[j].system = remote[k].system

\* Two chat calls with different gameCode and different library started
\* while the cache held the same non-empty code, and sent the same prompt.
ChatPromptIgnoresArgumentsWitness ==
    \E j, k \in PromptingChats :
        /\ calls[j].body.gameCode # calls[k].body.gameCode
        /\ calls[j].body.library # calls[k].body.library
        /\ calls[j].body.message = calls[k].body.message
        /\ local[j].cacheAtStart = 1 /\ local[k].cacheAtStart = 1
        /\ CacheAfter(1) # <<>>
        /\ remote[j].system = AIchatbotPrompt \o CacheAfter(1)
        /\ remote[k].system = remote[j].system

(***************************************************************************)
(* C15: no step of a chat call, its start, the provider's reply or         *)
(* failure, the route's answer, changes the cache: with or without the     *)
(* chat call, the cache holds the same value.                              *)
(***************************************************************************)
\* This step starts a chat call or moves one on.
ChatStep ==
    \E k \in DOMAIN calls' :
        /\ calls'[k].route \in {"POST /api/chat", "chatWithCodeAssistant"}
        /\ \/ k \notin Calls
           \/ pc'[k] # pc[k]
           \/ local'[k] # local[k]
           \/ remote'[k] # remote[k]
           \/ res'[k] # res[k]

ChatLeavesCache == [][ChatStep => TheCleanCode' = TheCleanCode]_vars

\* With code in the cache, one chat call was answered with a reply other
\* than that code and another failed; the cache is as the generation left it.
ChatLeavesCacheWitness ==
    /\ TheCleanCode # <<>>
    /\ TheCleanCode = CacheAfter(Len(completed))
    /\ \E k \in ChatCalls :
          /\ local[k].cacheAtStart = 1
          /\ remote[k].outcome = "message"
          /\ local[k].result # TheCleanCode
          /\ pc[k] \in {"returned", "done"}
    /\ \E k \in ChatCalls :
          /\ local[k].cacheAtStart = 1
          /\ remote[k].outcome = "error"
          /\ pc[k] \in {"threw", "done"}

(***************************************************************************)
(* C16: one policy for the library on both paths. For the same library     *)
(* value, generateGame and generateGameStreaming both call the provider or *)
(* both do not, with the same system prompt; and /api/generate and         *)
(* /api/generate-stream both accept the request or both refuse it.         *)
(***************************************************************************)
\* The call got as far as its request to the provider.
ReachedProvider(c) == remote[c].api # "none"

LibraryPolicyIsConsistent ==
    \A c, d \in Calls :
        calls[c].body.library = calls[d].body.library =>
            /\ (/\ calls[c].route = "generateGame"
                /\ calls[d].route = "generateGameStreaming") =>
                  /\ ReachedProvider(c) = ReachedProvider(d)
                  /\ remote[c].system = remote[d].system
            /\ (/\ calls[c].route = "POST /api/generate"
                /\ calls[d].route = "POST /api/generate-stream") =>
                  ReachedProvider(c) = ReachedProvider(d)

(***************************************************************************)
(* C17: a generation request without a library is a request for p5js: it   *)
(* is accepted, the provider is called with the p5js system prompt, and    *)
(* the answer, once given, is a success; on the one-shot path and on the   *)
(* streaming path alike.                                                   *)
(***************************************************************************)
OmittedLibraryIsP5js ==
    \A c \in GenerationCalls :
        calls[c].body.library = Undefined =>
            /\ ReachedProvider(c)
            /\ remote[c].system = p5jsPrompt
            /\ pc[c] = "done" =>
                  /\ res[c].status = 200
                  /\ IF calls[c].route = "POST /api/generate"
                     THEN res[c].json[1].success = TRUE /\ res[c].json[1].library = P5JS
                     ELSE IsComplete(res[c].frames[Len(res[c].frames)].json)

(***************************************************************************)
(* C18: no retries. Every generateGame, generateGameStreaming and          *)
(* chatWithCodeAssistant call sends at most one request to the provider,   *)
(* and a call whose request failed has thrown the provider's error to its  *)
(* caller with that one request sent.                                      *)
(***************************************************************************)
NoRetries ==
    \A c \in Calls :
        /\ remote[c].attempts <= 1
        /\ remote[c].outcome = "error" =>
              /\ remote[c].attempts = 1
              /\ pc[c] \in {"threw", "done"}
              /\ local[c].error = remote[c].error
              /\ local[c].result = <<>>

\* A generation request, a streaming request and a chat request each failed
\* at the provider and were answered, each after one request.
NoRetriesWitness ==
    /\ \E c \in Calls : calls[c].route = "POST /api/generate"
                        /\ remote[c].outcome = "error" /\ pc[c] = "done"
                        /\ remote[c].attempts = 1
    /\ \E c \in Calls : calls[c].route = "POST /api/generate-stream"
                        /\ remote[c].outcome = "error" /\ pc[c] = "done"
                        /\ remote[c].attempts = 1
    /\ \E c \in Calls : calls[c].route = "POST /api/chat"
                        /\ remote[c].outcome = "error" /\ pc[c] = "done"
                        /\ remote[c].attempts = 1

(***************************************************************************)
(* C19: a reply that stopped at max_tokens is a success like any other.    *)
(* generateGame returns the cleaned partial text; generateGameStreaming    *)
(* hands its sink a complete event with the cleaned partial text, no error *)
(* event, and returns; both write the cache as they do for a reply that    *)
(* ended by itself, and the routes answer 200.                             *)
(***************************************************************************)
TruncationIsNotAFailure ==
    \A c \in GenerationCalls :
        (/\ remote[c].outcome = "message"
         /\ remote[c].stop_reason = "max_tokens"
         /\ calls[c].onChunk # "throwsOnComplete") =>
            /\ pc[c] \in {"returned", "done"}
            /\ local[c].error = ""
            /\ local[c].result = SanitizedOutput(c)
            /\ HasCompleted(c)
            /\ Position(c) = Len(completed) => TheCleanCode = SanitizedOutput(c)
            /\ res[c].status = 200
            /\ c \in StreamingCalls =>
                  /\ SelectSeq(sink[c], IsError) = <<>>
                  /\ sink[c][Len(sink[c])] =
                        [type |-> "complete", code |-> SanitizedOutput(c),
                         chunks |-> Len(remote[c].deltas)]
            /\ (pc[c] = "done" /\ calls[c].route = "POST /api/generate") =>
                  res[c].json[1] = [success |-> TRUE, code |-> SanitizedOutput(c),
                                    library |-> local[c].library]

\* A one-shot request and a streaming request were both cut off at the
\* limit, both were answered with their partial code, and the cache holds
\* the code of the later one.
TruncationIsNotAFailureWitness ==
    \E c, d \in Calls :
        /\ calls[c].route = "POST /api/generate"
        /\ calls[d].route = "POST /api/generate-stream"
        /\ remote[c].stop_reason = "max_tokens"
        /\ remote[d].stop_reason = "max_tokens"
        /\ pc[c] = "done" /\ pc[d] = "done"
        /\ res[c].json[1].code = <<"b">>
        /\ IsComplete(res[d].frames[Len(res[d].frames)].json)
        /\ res[d].frames[Len(res[d].frames)].json.code = <<"c">>
        /\ completed = <<c, d>>
        /\ TheCleanCode = <<"c">>

(***************************************************************************)
(* C20: every request the provider receives, from generateGame, from       *)
(* chatWithCodeAssistant and from generateGameStreaming, carries its       *)
(* system prompt marked with the ephemeral cache hint.                     *)
(***************************************************************************)
EveryRequestHasCacheHint ==
    \A c \in Calls :
        ReachedProvider(c) =>
            /\ remote[c].system # <<>>
            /\ remote[c].cache_control = "ephemeral"

(***************************************************************************)
(* C21: once the client of a /api/generate-stream request has gone away,   *)
(* nothing more is written to that response: it holds the frames it held   *)
(* when the client left, no chunk, complete or error frame after them.     *)
(***************************************************************************)
NoFramesAfterAbandon ==
    \A c \in Calls :
        res[c].abandoned => Len(res[c].frames) = res[c].framesAtAbandon

(***************************************************************************)
(* C22: the three prompt files are read once each, at the start; the       *)
(* process listens only when all three were read, so with a file missing   *)
(* or unreadable it never takes a request; and once requests are served    *)
(* nothing is read again and what was loaded stays as it was.              *)
(***************************************************************************)
PromptsLoadedOnceBeforeTraffic ==
    /\ \A i, j \in DOMAIN startup.reads :
          startup.reads[i] = startup.reads[j] => i = j
    /\ startup.phase = "listening" =>
          /\ startup.reads = Resources
          /\ startup.readable = ResourceSet
    /\ startup.readable # ResourceSet =>
          /\ startup.phase # "listening"
          /\ calls = <<>>
    /\ calls # <<>> => startup = Started

\* The process read the three files, listened, and has answered a generation
\* request with the phaser prompt and a chat request with the template.
PromptsLoadedOnceBeforeTrafficWitness ==
    /\ startup.phase = "listening"
    /\ startup.reads = Resources
    /\ \E c \in Calls : /\ calls[c].route = "POST /api/generate-stream"
                        /\ pc[c] = "done"
                        /\ remote[c].system = phaserPrompt
    /\ \E c \in Calls : /\ calls[c].route = "POST /api/chat"
                        /\ pc[c] = "done"
                        /\ remote[c].system = AIchatbotPrompt \o TheCleanCode

(***************************************************************************)
(* C23: a result cut off at max_tokens carries an indication of it: what   *)
(* generateGame returns, what generateGameStreaming hands its sink and     *)
(* returns, or what the route answers, differs from what the same text     *)
(* gives when the reply ended by itself.                                   *)
(***************************************************************************)
\* What a caller or a client gets to see of a call.
Observable(c) == <<local[c].result, sink[c], res[c]>>

TruncationIsFlagged ==
    \A c, d \in GenerationCalls :
        (/\ calls[c] = calls[d]
         /\ pc[c] = pc[d]
         /\ pc[c] \in {"returned", "done"}
         /\ RawOutput(c) = RawOutput(d)
         /\ remote[c].stop_reason = "max_tokens"
         /\ remote[d].stop_reason = "end_turn") =>
            Observable(c) # Observable(d)

(***************************************************************************)
(* C24: a generation call passes Idle, PromptSelected, AwaitingModel,      *)
(* Sanitizing, Cached, Done in this order, none skipped or repeated; it    *)
(* enters Failed from AwaitingModel only; and a call that began sanitizing *)
(* goes on to Cached and Done.                                             *)
(***************************************************************************)
Phases == <<"Idle", "PromptSelected", "AwaitingModel", "Sanitizing", "Cached", "Done">>

IsPrefix(a, b) == Len(a) <= Len(b) /\ SubSeq(b, 1, Len(a)) = a

PhasesInOrder ==
    \A c \in GenerationCalls :
        LET passed == local[c].phases
        IN  /\ \/ IsPrefix(passed, Phases)
               \/ passed = <<"Idle", "PromptSelected", "AwaitingModel", "Failed">>
            /\ (\E i \in DOMAIN passed : passed[i] = "Sanitizing") =>
                  passed = Phases

(***************************************************************************)
(* C25: the step in which a generateGame or generateGameStreaming call     *)
(* fails leaves the cache as it was, also when the streaming call had      *)
(* delivered chunks: after it the cache still holds the output of the last *)
(* generation that succeeded.                                              *)
(***************************************************************************)
\* In this step a generation call throws.
GenerationFails ==
    \E c \in GenerationCalls : pc[c] # "threw" /\ pc'[c] = "threw"

FailureLeavesCache ==
    [][GenerationFails =>
          /\ TheCleanCode' = TheCleanCode
          /\ completed' = completed
          /\ TheCleanCode' = CacheAfter(Len(completed))]_vars

\* After a generation that left code in the cache, a streaming call failed
\* with a chunk delivered and a one-shot call failed; the code is still there.
FailureLeavesCacheWitness ==
    /\ Len(completed) = 1
    /\ TheCleanCode # <<>>
    /\ TheCleanCode = SanitizedOutput(completed[1])
    /\ \E c \in StreamingCalls :
          /\ c > completed[1]
          /\ remote[c].outcome = "error"
          /\ Len(remote[c].deltas) >= 1
          /\ stripMarkdownCodeBlocks(local[c].fullResponse) # TheCleanCode
          /\ pc[c] \in {"threw", "done"}
    /\ \E c \in Calls :
          /\ c > completed[1]
          /\ calls[c].route = "POST /api/generate"
          /\ remote[c].outcome = "error"
          /\ pc[c] \in {"threw", "done"}

(***************************************************************************)
(* C26: in a streaming call the complete event comes before the cache      *)
(* write: once a complete event carrying some code has been handed to the  *)
(* sink, the call has set the cache to that code and returned it, and no   *)
(* error event follows a complete event in the same sink, also when the    *)
(* sink itself fails while handling the complete event.                    *)
(***************************************************************************)
CompleteIsFinal ==
    \A c \in StreamingCalls :
        \A i \in DOMAIN sink[c] :
            IsComplete(sink[c][i]) =>
                /\ pc[c] \in {"returned", "done"}
                /\ local[c].result = sink[c][i].code
                /\ HasCompleted(c)
                /\ (completed[Len(completed)] = c => TheCleanCode = sink[c][i].code)
                /\ \A j \in DOMAIN sink[c] : j > i => ~IsError(sink[c][j])

(***************************************************************************)
(* C27: chatWithCodeAssistant reads the cache once, when the call starts   *)
(* and before it awaits the model. No later step changes the prompt a chat *)
(* call sent, and a generation that returns while a chat call is waiting   *)
(* puts its own output in the cache and leaves that chat call's prompt the *)
(* template followed by what the cache held when the chat call started.    *)
(***************************************************************************)
\* The chat calls waiting for the model.
WaitingChats == {k \in PromptingChats : pc[k] = "awaitCreate"}

\* In this step a generation returns.
GenerationReturns == completed' # completed

ChatReadsCacheOnce ==
    [][/\ \A k \in PromptingChats : remote'[k].system = remote[k].system
       /\ GenerationReturns =>
             /\ TheCleanCode' = local'[completed'[Len(completed')]].result
             /\ \A k \in WaitingChats :
                   remote'[k].system =
                       AIchatbotPrompt \o
                           (IF local[k].cacheAtStart = 0 THEN <<>>
                            ELSE local[completed[local[k].cacheAtStart]].result)]_vars

\* A chat call is waiting for the model with the prompt of the code it
\* found, and a generation that returned since has put other code in the
\* cache.
ChatReadsCacheOnceWitness ==
    \E k \in ChatCalls :
        /\ pc[k] = "awaitCreate"
        /\ local[k].cacheAtStart = 1
        /\ Len(completed) = 2
        /\ completed[2] > k
        /\ TheCleanCode = local[completed[2]].result
        /\ TheCleanCode # local[completed[1]].result
        /\ remote[k].system = AIchatbotPrompt \o local[completed[1]].result
        /\ remote[k].system # AIchatbotPrompt \o TheCleanCode

(***************************************************************************)
(* C28: a streaming generation whose client has abandoned the connection   *)
(* keeps consuming the remote stream, and when the stream ends well it     *)
(* still puts its sanitized output in the cache: a chat call that starts   *)
(* after it, whoever sends it, gets the abandoned generation's code as its *)
(* context.                                                                *)
(***************************************************************************)
\* The streaming requests whose client went away and whose stream ended well.
AbandonedAndFinished ==
    {c \in StreamingCalls : res[c].abandoned /\ remote[c].outcome = "message"}

AbandonedGenerationStillCaches ==
    \A c \in AbandonedAndFinished :
        /\ local[c].fullResponse = Concat(remote[c].deltas)
        /\ local[c].result = stripMarkdownCodeBlocks(Concat(remote[c].deltas))
        /\ \E p \in DOMAIN completed : completed[p] = c
        /\ (completed[Len(completed)] = c =>
               TheCleanCode = stripMarkdownCodeBlocks(Concat(remote[c].deltas)))
        /\ \A k \in PromptingChats :
               (local[k].cacheAtStart > 0 /\ completed[local[k].cacheAtStart] = c) =>
                   remote[k].system =
                       AIchatbotPrompt \o stripMarkdownCodeBlocks(Concat(remote[c].deltas))

\* The client left before any text had come; the stream went on, ended well,
\* and a chat request made afterwards carries the code of that generation.
AbandonedGenerationStillCachesWitness ==
    \E c \in AbandonedAndFinished, k \in PromptingChats :
        /\ res[c].framesAtAbandon = 0
        /\ Len(remote[c].deltas) >= 1
        /\ local[c].result # <<>>
        /\ completed = <<c>>
        /\ TheCleanCode = local[c].result
        /\ k > c
        /\ local[k].cacheAtStart = 1
        /\ remote[k].system = AIchatbotPrompt \o local[c].result
        /\ pc[k] \in {"returned", "done"}

(***************************************************************************)
(* C29: every request to /api/generate-stream is eventually closed, given  *)
(* that the provider's call resolves or rejects. A request that fails the  *)
(* validation gets one JSON answer with a 4xx status and no pushed event;  *)
(* a request that passed it has its response ended, on the success path    *)
(* and on the failure path, and only after its terminal event.             *)
(***************************************************************************)
StreamRequests == {c \in Calls : calls[c].route = "POST /api/generate-stream"}

StreamRequestsAnsweredInForm ==
    \A c \in StreamRequests :
        /\ (\/ BadDescription(calls[c].body.description)
            \/ BadLibrary(calls[c].body.library)) =>
               /\ res[c].ended
               /\ ~res[c].sse
               /\ res[c].status \in 400..499
               /\ Len(res[c].json) = 1
               /\ res[c].frames = <<>>
        /\ (res[c].sse /\ res[c].ended) =>
               /\ res[c].json = <<>>
               /\ res[c].frames # <<>>
               /\ IsTerminal(res[c].frames[Len(res[c].frames)].json)

\* The response of request c has been ended.
Closed(c) == c \in StreamRequests /\ res[c].ended

\* The provider's call of every request resolves or rejects in the end.
ProviderAnswers ==
    \A c \in 1..MaxRequests : []<>~(c \in StreamRequests /\ pc[c] = "awaitFinal")

EveryStreamRequestIsClosed ==
    /\ []StreamRequestsAnsweredInForm
    /\ ProviderAnswers =>
          \A c \in 1..MaxRequests : [](c \in StreamRequests => <>Closed(c))

====
